---- MODULE Spec2Model ----
(***************************************************************************)
(* netmiko/linux/linux_ssh.py: LinuxSSH (prompt state, enable /           *)
(* exit_enable_mode, config-mode aliases, send_config_set) and            *)
(* LinuxFileTransfer (remote_md5, process_md5).                           *)
(*                                                                         *)
(* Strings are sequences of one-character strings.  Every public method   *)
(* is an operator from (session state, arguments, what the channel will   *)
(* answer) to a result record; the actions apply the operators.  The      *)
(* parent-class methods these call (set_base_prompt, check_enable_mode,   *)
(* send_config_set, process_md5, _send_command_str) are not part of       *)
(* linux_ssh.py; they are the Super_* operators.                          *)
(***************************************************************************)
EXTENDS Integers, Sequences, FiniteSets, TLC

VARIABLES
    base_prompt,   \* self.base_prompt: the last-known base prompt
    username,      \* self.username
    secret,        \* self.secret
    ft,            \* LinuxFileTransfer: direction, source_file, dest_file, file_system
    call,          \* the most recent completed call: arguments, channel log, result
    prev           \* history: summary of the call before it (kept under SpecSeq)

vars == <<base_prompt, username, secret, ft, call, prev>>

----------------------------------------------------------------------------
(* Bounds *)

\* how many lines a prompt refresh can read before the channel goes silent
MaxReads == 2

----------------------------------------------------------------------------
(* Strings *)

Whitespace == {" "}

RECURSIVE LStrip(_)
LStrip(s) == IF s # <<>> /\ Head(s) \in Whitespace THEN LStrip(Tail(s)) ELSE s

RECURSIVE RStrip(_)
RStrip(s) ==
    IF s # <<>> /\ s[Len(s)] \in Whitespace THEN RStrip(SubSeq(s, 1, Len(s) - 1)) ELSE s

\* str.strip()
Strip(s) == LStrip(RStrip(s))

\* str.endswith(suffix)
EndsWith(s, suffix) ==
    /\ Len(suffix) <= Len(s)
    /\ SubSeq(s, Len(s) - Len(suffix) + 1, Len(s)) = suffix

Upper == <<"A", "D", "O", "P", "R", "S", "W">>
Lower == <<"a", "d", "o", "p", "r", "s", "w">>

\* str.lower() on one character
LowerChar(c) ==
    IF \E i \in 1..Len(Upper) : Upper[i] = c
    THEN Lower[CHOOSE i \in 1..Len(Upper) : Upper[i] = c]
    ELSE c

LowerStr(s) == [i \in 1..Len(s) |-> LowerChar(s[i])]

\* pat occurs in s as a contiguous substring
Contains(s, pat) ==
    \E i \in 0..(Len(s) - Len(pat)) : SubSeq(s, i + 1, i + Len(pat)) = pat

\* re.search(pattern, text, flags) for a literal pattern; ic is re.IGNORECASE
re_search(pattern, text, ic) ==
    IF ic THEN Contains(LowerStr(text), LowerStr(pattern)) ELSE Contains(text, pattern)

----------------------------------------------------------------------------
(* Module constants and defaults *)

LINUX_PROMPT_PRI == <<"$">>
LINUX_PROMPT_ALT == <<"#">>
LINUX_PROMPT_ROOT == <<"#">>

SUDO_S == <<"s", "u", "d", "o", " ", "-", "s">>
SSWORD == <<"s", "s", "w", "o", "r", "d">>
EXIT == <<"e", "x", "i", "t">>
RETURN == <<"\n">>
MD5SUM == <<"m", "d", "5", "s", "u", "m">>
VAR_TMP == <<"/", "v", "a", "r", "/", "t", "m", "p">>

\* a read that returned no data within the bound (no string equals it)
TIMEOUT == <<"TIMEOUT">>
\* Python None where a string is optional (no string equals it)
None == <<"None">>
\* read_timeout passed by remote_md5
MD5_READ_TIMEOUT == 300

----------------------------------------------------------------------------
(* Channel log and results *)

\* channel events: write_channel(arg), a read that returned arg, a read that
\* timed out; Call is a delegation to a parent-class method with argument arg
Write(by, what, arg) == [ev |-> "write", by |-> by, what |-> what, arg |-> arg]
Read(by, what, data) == [ev |-> "read", by |-> by, what |-> what, arg |-> data]
TimedOut(by, what) == [ev |-> "timeout", by |-> by, what |-> what, arg |-> <<>>]
Call(by, what, arg) == [ev |-> "call", by |-> by, what |-> what, arg |-> arg]

\* a method's outcome: the base prompt it leaves, the exception it raises
\* ("none" when it returns), the returned string or boolean, and the channel
\* events it caused, in order
Result(bp, exc, msg, ret, log) ==
    [base_prompt |-> bp, exc |-> exc, msg |-> msg, ret |-> ret, log |-> log]

Writes(log) == {i \in 1..Len(log) : log[i].ev = "write"}
WritesOf(log, by, what) ==
    {i \in 1..Len(log) : log[i].ev = "write" /\ log[i].by = by /\ log[i].what = what}

----------------------------------------------------------------------------
(* Parent-class methods (CiscoSSHConnection / BaseConnection) *)

\* does a line read from the channel show a prompt?
PromptMatches(line, pri, alt, pattern) ==
    IF pattern = None
    THEN EndsWith(Strip(line), pri) \/ EndsWith(Strip(line), alt)
    ELSE Contains(line, pattern)

\* the reads of a prompt refresh: lines is what the channel delivers, in
\* order, before it goes silent
RECURSIVE FindPrompt(_, _, _, _)
FindPrompt(lines, pri, alt, pattern) ==
    IF lines = <<>>
    THEN [found |-> FALSE, prompt |-> <<>>,
          log |-> <<TimedOut("set_base_prompt", "prompt")>>]
    ELSE IF PromptMatches(Head(lines), pri, alt, pattern)
    THEN [found |-> TRUE, prompt |-> Strip(Head(lines)),
          log |-> <<Read("set_base_prompt", "prompt", Head(lines))>>]
    ELSE LET rest == FindPrompt(Tail(lines), pri, alt, pattern)
         IN  [rest EXCEPT !.log = <<Read("set_base_prompt", "prompt", Head(lines))>> \o @]

\* BaseConnection.set_base_prompt: neutral keystroke, read until a line shows
\* a prompt, store the trimmed prompt
Super_set_base_prompt(bp, pri, alt, pattern, lines) ==
    LET w == Write("set_base_prompt", "RETURN", RETURN)
        f == FindPrompt(lines, pri, alt, pattern)
    IN  IF f.found
        THEN Result(f.prompt, "none", "", f.prompt, <<w>> \o f.log)
        ELSE Result(bp, "socket.timeout", "", <<>>, <<w>> \o f.log)

\* BaseConnection.check_enable_mode: the cached base prompt ends with check_string
Super_check_enable_mode(bp, check_string) == EndsWith(bp, check_string)

\* the length of the leading run of non-whitespace characters
RECURSIVE TokenLen(_)
TokenLen(s) == IF s = <<>> \/ Head(s) \in Whitespace THEN 0 ELSE 1 + TokenLen(Tail(s))

\* CiscoFileTransfer.process_md5 with the search pattern ^(\S+)\s+ : group 1 is
\* the leading token, which whitespace must follow
Super_process_md5(md5_output, pattern) ==
    LET n == TokenLen(md5_output)
    IN  IF n >= 1 /\ n < Len(md5_output)
        THEN [exc |-> "none", ret |-> SubSeq(md5_output, 1, n)]
        ELSE [exc |-> "ValueError", ret |-> <<>>]

\* the Unix helpers of BaseFileTransfer: each works over the control channel
\* and hands back what it found there (answer); the session is not touched
Super_remote_space_available_unix(search_pattern, answer) ==
    [ret |-> answer,
     log |-> <<Call("remote_space_available", "_remote_space_available_unix",
                    search_pattern)>>]

Super_check_file_exists_unix(remote_cmd, answer) ==
    [ret |-> answer,
     log |-> <<Call("check_file_exists", "_check_file_exists_unix", remote_cmd)>>]

Super_remote_file_size_unix(remote_cmd, remote_file, answer) ==
    [ret |-> answer,
     log |-> <<Call("remote_file_size", "_remote_file_size_unix",
                    <<remote_cmd, remote_file>>)>>]

\* BaseConnection._send_command_str(command_string, read_timeout): the command
\* goes over the control channel and its output comes back
Super_send_command_str(by, command_string, read_timeout, out) ==
    [ret |-> out,
     log |-> <<[ev |-> "send_command", by |-> by, what |-> "_send_command_str",
                arg |-> command_string, read_timeout |-> read_timeout,
                out |-> out]>>]

\* the generic batch execution: each line is written and its output read, and
\* the command-mode exit sequence follows when exit_config_mode is set.
\* exited is the outcome of the session's exit_config_mode() called at that point.
Super_send_config_set(bp, config_commands, exit_config_mode, outs, exited) ==
    LET io == [i \in 1..(2 * Len(config_commands)) |->
                  IF i % 2 = 1
                  THEN Write("send_config_set", "config_command", config_commands[(i + 1) \div 2])
                  ELSE Read("send_config_set", "output", outs[i \div 2])]
        r  == exited
    IN  IF exit_config_mode
        THEN Result(r.base_prompt, r.exc, r.msg, <<>>,
                    io \o <<Call("send_config_set", "exit_config_mode", <<>>)>> \o r.log)
        ELSE Result(bp, "none", "", <<>>, io)

----------------------------------------------------------------------------
(* class LinuxSSH *)

\* faulty variant: the check ignores its argument and looks for the primary terminator
check_enable_mode_pri(bp, check_string) == Super_check_enable_mode(bp, LINUX_PROMPT_PRI)

\* check_enable_mode(check_string=LINUX_PROMPT_ROOT)
check_enable_mode(bp, check_string) == Super_check_enable_mode(bp, check_string)

\* BaseConnection.check_enable_mode is a read of the cached prompt: it puts
\* nothing on the channel and takes nothing from it
Super_check_enable_mode_io(check_string) == <<>>

\* faulty variant: the check probes the channel with a newline
check_enable_mode_io_probe(check_string) ==
    <<Write("check_enable_mode", "return", RETURN)>>

\* the channel events of check_enable_mode(check_string)
check_enable_mode_io(check_string) == Super_check_enable_mode_io(check_string)

\* the channel events of check_config_mode(check_string, pattern)
check_config_mode_io(check_string, pattern) == check_enable_mode_io(check_string)

\* faulty variant: the check looks for the primary terminator
check_config_mode_pri(bp, check_string, pattern) ==
    check_enable_mode(bp, LINUX_PROMPT_PRI)

\* check_config_mode(check_string=LINUX_PROMPT_ROOT, pattern="")
check_config_mode(bp, check_string, pattern) == check_enable_mode(bp, check_string)

\* set_base_prompt(pri_prompt_terminator, alt_prompt_terminator, delay_factor, pattern)
set_base_prompt(bp, pri, alt, pattern, lines) ==
    Super_set_base_prompt(bp, pri, alt, pattern, lines)

TIMED_OUT_MSG == "Timed-out reading channel, data not available."
ENABLE_FAILED_MSG ==
    "Failed to enter enable mode. Please ensure you pass the 'secret' argument to ConnectHandler."
EXIT_FAILED_MSG == "Failed to exit enable mode."

\* faulty variant: the check after the refresh is missing
exit_sequence_unchecked(bp, exit_command, lines) ==
    LET w == Write("exit_enable_mode", "exit_command", exit_command)
        r == set_base_prompt(bp, LINUX_PROMPT_PRI, LINUX_PROMPT_ALT, None, lines)
    IN  IF r.exc # "none"
        THEN Result(r.base_prompt, r.exc, r.msg, <<>>, <<w>> \o r.log)
        ELSE Result(r.base_prompt, "none", "", <<>>, <<w>> \o r.log)

\* faulty variant: the check after the refresh looks at the prompt held before it
exit_sequence_stale(bp, exit_command, lines) ==
    LET w == Write("exit_enable_mode", "exit_command", exit_command)
        r == set_base_prompt(bp, LINUX_PROMPT_PRI, LINUX_PROMPT_ALT, None, lines)
    IN  IF r.exc # "none"
        THEN Result(r.base_prompt, r.exc, r.msg, <<>>, <<w>> \o r.log)
        ELSE IF check_enable_mode(bp, LINUX_PROMPT_ROOT)
        THEN Result(r.base_prompt, "ValueError", EXIT_FAILED_MSG,
                    <<>>, <<w>> \o r.log)
        ELSE Result(r.base_prompt, "none", "", <<>>, <<w>> \o r.log)

\* exit_enable_mode, the branch taken in enable mode: the exit command, the
\* prompt refresh (whose exception is not caught) and the check
exit_sequence(bp, exit_command, lines) ==
    LET w == Write("exit_enable_mode", "exit_command", exit_command)
        r == set_base_prompt(bp, LINUX_PROMPT_PRI, LINUX_PROMPT_ALT, None, lines)
    IN  IF r.exc # "none"
        THEN Result(r.base_prompt, r.exc, r.msg, <<>>, <<w>> \o r.log)
        ELSE IF check_enable_mode(r.base_prompt, LINUX_PROMPT_ROOT)
        THEN Result(r.base_prompt, "ValueError", EXIT_FAILED_MSG,
                    <<>>, <<w>> \o r.log)
        ELSE Result(r.base_prompt, "none", "", <<>>, <<w>> \o r.log)

\* faulty variant: the exit sequence runs whatever the mode
exit_enable_mode_unguarded(bp, exit_command, lines) ==
    exit_sequence(bp, exit_command, lines)

\* exit_enable_mode(exit_command="exit"); lines is what the channel delivers
\* to the prompt refresh
exit_enable_mode(bp, exit_command, lines) ==
    IF check_enable_mode(bp, LINUX_PROMPT_ROOT)
    THEN exit_sequence(bp, exit_command, lines)
    ELSE Result(bp, "none", "", <<>>, <<>>)

\* faulty variant: no handler, the exception of the try block propagates as it is
enable_except_missing(exc) == exc

\* enable, the except clause: socket.timeout becomes NetmikoTimeoutException
enable_except(exc) ==
    IF exc = "socket.timeout" THEN "NetmikoTimeoutException" ELSE exc

\* faulty variant: the secret is sent straight after the command, before the
\* output is read
enable_try_eager(bp, sec, pattern, ic, out, lines) ==
    LET w2 == <<Write("enable", "secret", sec)>>
    IN  IF out = TIMEOUT
        THEN Result(bp, enable_except("socket.timeout"), TIMED_OUT_MSG, <<>>,
                    w2 \o <<TimedOut("enable", "output")>>)
        ELSE LET rd == <<Read("enable", "output", out)>>
                 r  == set_base_prompt(bp, LINUX_PROMPT_PRI, LINUX_PROMPT_ALT, None, lines)
             IN  IF r.exc # "none"
                 THEN Result(r.base_prompt, enable_except(r.exc), TIMED_OUT_MSG, <<>>,
                             w2 \o rd \o r.log)
                 ELSE Result(r.base_prompt, "none", "", out, w2 \o rd \o r.log)

\* faulty variant: the secret is sent whatever the output shows
enable_try_always(bp, sec, pattern, ic, out, lines) ==
    IF out = TIMEOUT
    THEN Result(bp, enable_except("socket.timeout"), TIMED_OUT_MSG, <<>>,
                <<TimedOut("enable", "output")>>)
    ELSE LET rd == <<Read("enable", "output", out)>>
             w2 == <<Write("enable", "secret", sec)>>
             r  == set_base_prompt(bp, LINUX_PROMPT_PRI, LINUX_PROMPT_ALT, None, lines)
         IN  IF r.exc # "none"
             THEN Result(r.base_prompt, enable_except(r.exc), TIMED_OUT_MSG, <<>>,
                         rd \o w2 \o r.log)
             ELSE Result(r.base_prompt, "none", "", out, rd \o w2 \o r.log)

\* faulty variant: a timeout clears the stored prompt
enable_try_forgetful(bp, sec, pattern, ic, out, lines) ==
    IF out = TIMEOUT
    THEN Result(<<>>, enable_except("socket.timeout"), TIMED_OUT_MSG, <<>>,
                <<TimedOut("enable", "output")>>)
    ELSE LET rd == <<Read("enable", "output", out)>>
             w2 == IF re_search(pattern, out, ic)
                   THEN <<Write("enable", "secret", sec)>>
                   ELSE <<>>
             r  == set_base_prompt(bp, LINUX_PROMPT_PRI, LINUX_PROMPT_ALT, None, lines)
         IN  IF r.exc # "none"
             THEN Result(<<>>, enable_except(r.exc), TIMED_OUT_MSG, <<>>,
                         rd \o w2 \o r.log)
             ELSE Result(r.base_prompt, "none", "", out, rd \o w2 \o r.log)

\* enable, the try block: read_channel(), the secret if the output shows the
\* pattern, the prompt refresh.  out = TIMEOUT: read_channel() raises socket.timeout
enable_try(bp, sec, pattern, ic, out, lines) ==
    IF out = TIMEOUT
    THEN Result(bp, enable_except("socket.timeout"), TIMED_OUT_MSG, <<>>,
                <<TimedOut("enable", "output")>>)
    ELSE LET rd == <<Read("enable", "output", out)>>
             w2 == IF re_search(pattern, out, ic)
                   THEN <<Write("enable", "secret", sec)>>
                   ELSE <<>>
             r  == set_base_prompt(bp, LINUX_PROMPT_PRI, LINUX_PROMPT_ALT, None, lines)
         IN  IF r.exc # "none"
             THEN Result(r.base_prompt, enable_except(r.exc), TIMED_OUT_MSG, <<>>,
                         rd \o w2 \o r.log)
             ELSE Result(r.base_prompt, "none", "", out, rd \o w2 \o r.log)

\* faulty variant: the check after the refresh is missing
enable_sequence_unchecked(bp, sec, cmd, pattern, ic, out, lines) ==
    LET w1 == <<Write("enable", "cmd", cmd)>>
        t  == enable_try(bp, sec, pattern, ic, out, lines)
    IN  [t EXCEPT !.log = w1 \o @]

\* enable, the branch taken outside enable mode: the command, the try block
\* and the check
enable_sequence(bp, sec, cmd, pattern, ic, out, lines) ==
    LET w1 == <<Write("enable", "cmd", cmd)>>
        t  == enable_try(bp, sec, pattern, ic, out, lines)
    IN  IF t.exc # "none"
        THEN [t EXCEPT !.log = w1 \o @]
        ELSE IF ~check_enable_mode(t.base_prompt, LINUX_PROMPT_ROOT)
        THEN Result(t.base_prompt, "ValueError", ENABLE_FAILED_MSG, <<>>, w1 \o t.log)
        ELSE Result(t.base_prompt, "none", "", t.ret, w1 \o t.log)

\* faulty variant: the elevation sequence runs whatever the mode
enable_unguarded(bp, sec, cmd, pattern, ic, out, lines) ==
    enable_sequence(bp, sec, cmd, pattern, ic, out, lines)

\* enable(cmd="sudo -s", pattern="ssword", enable_pattern=None, re_flags=re.IGNORECASE);
\* out is what read_channel() delivers, lines what the channel delivers to
\* the prompt refresh
enable(bp, sec, cmd, pattern, ic, out, lines) ==
    IF ~check_enable_mode(bp, LINUX_PROMPT_ROOT)
    THEN enable_sequence(bp, sec, cmd, pattern, ic, out, lines)
    ELSE Result(bp, "none", "", <<>>, <<>>)

\* faulty variant: re_flags is not handed on, enable() takes its default
config_mode_noflags(bp, sec, config_command, pattern, ic, out, lines) ==
    enable(bp, sec, config_command, pattern, TRUE, out, lines)

\* config_mode(config_command="sudo -s", pattern="ssword", re_flags=re.IGNORECASE)
config_mode(bp, sec, config_command, pattern, ic, out, lines) ==
    enable(bp, sec, config_command, pattern, ic, out, lines)

\* exit_config_mode(exit_config="exit", pattern="")
exit_config_mode(bp, exit_config, pattern, lines) ==
    exit_enable_mode(bp, exit_config, lines)

\* faulty variant: the caller's flag is handed on whoever the user is
HandedExitFlag_asked(user, exit_config_mode_arg) == exit_config_mode_arg

\* the exit_config_mode flag send_config_set hands to the generic batch
HandedExitFlag(user, exit_config_mode_arg) ==
    IF user = "root" THEN FALSE ELSE exit_config_mode_arg

\* send_config_set(config_commands=None, exit_config_mode=True, **kwargs)
send_config_set(bp, user, config_commands, exit_config_mode_arg, outs, lines) ==
    LET flag == HandedExitFlag(user, exit_config_mode_arg)
        exited == exit_config_mode(bp, EXIT, <<>>, lines)
        r == Super_send_config_set(bp, config_commands, flag, outs, exited)
    IN  [r EXCEPT !.log = <<Call("send_config_set", "super.send_config_set",
                                IF flag THEN <<"True">> ELSE <<"False">>)>> \o @]

\* faulty variant: the inherited behaviour, a paging command goes out
disable_paging_inherited(bp, args) ==
    Result(bp, "none", "", <<>>,
           <<Write("disable_paging", "command", <<"t", "e", "r", "m">>)>>)

\* disable_paging(*args, **kwargs)
disable_paging(bp, args) == Result(bp, "none", "", <<>>, <<>>)

\* faulty variant: saving is accepted silently
save_config_silent(bp, args) == Result(bp, "none", "", <<>>, <<>>)

\* save_config(*args, **kwargs)
save_config(bp, args) == Result(bp, "NotImplementedError", "", <<>>, <<>>)

----------------------------------------------------------------------------
(* class LinuxFileTransfer *)

MD5_PATTERN == "^(\\S+)\\s+"

\* faulty variant: the two directions are swapped
ResolveRemoteFile_swapped(f, remote_file) ==
    IF remote_file = None
    THEN IF f.direction = "put" THEN f.source_file
         ELSE IF f.direction = "get" THEN f.dest_file
         ELSE <<"N", "o", "n", "e">>
    ELSE remote_file

\* the remote file remote_md5 works on
ResolveRemoteFile(f, remote_file) ==
    IF remote_file = None
    THEN IF f.direction = "put" THEN f.dest_file
         ELSE IF f.direction = "get" THEN f.source_file
         ELSE <<"N", "o", "n", "e">>
    ELSE remote_file

\* process_md5(md5_output, pattern=r"^(\S+)\s+")
\* remote_space_available(search_pattern="")
remote_space_available(search_pattern, answer) ==
    Super_remote_space_available_unix(search_pattern, answer)

\* check_file_exists(remote_cmd="")
check_file_exists(remote_cmd, answer) ==
    Super_check_file_exists_unix(remote_cmd, answer)

\* remote_file_size(remote_cmd="", remote_file=None)
remote_file_size(remote_cmd, remote_file, answer) ==
    Super_remote_file_size_unix(remote_cmd, remote_file, answer)

\* faulty variant: the raw output is handed back unparsed
process_md5_raw(md5_output, pattern) == [exc |-> "none", ret |-> md5_output]

\* process_md5(md5_output, pattern=r"^(\S+)\s+"), a static method
process_md5(md5_output, pattern) == Super_process_md5(md5_output, pattern)

\* faulty variant: the command leaves out the file system
remote_md5_noroot(bp, f, base_cmd, remote_file, out) ==
    LET rf             == ResolveRemoteFile(f, remote_file)
        remote_md5_cmd == base_cmd \o <<" ">> \o rf
        sent           == Super_send_command_str("remote_md5", remote_md5_cmd,
                                                 MD5_READ_TIMEOUT, out)
        parsed         == process_md5(sent.ret, MD5_PATTERN)
    IN  IF parsed.exc # "none"
        THEN Result(bp, parsed.exc, "", <<>>, sent.log)
        ELSE Result(bp, "none", "", Strip(parsed.ret), sent.log)

\* remote_md5(base_cmd="md5sum", remote_file=None); out is the output of the
\* command on the control channel
remote_md5(bp, f, base_cmd, remote_file, out) ==
    LET rf             == ResolveRemoteFile(f, remote_file)
        remote_md5_cmd == base_cmd \o <<" ">> \o f.file_system \o <<"/">> \o rf
        sent           == Super_send_command_str("remote_md5", remote_md5_cmd,
                                                 MD5_READ_TIMEOUT, out)
        parsed         == process_md5(sent.ret, MD5_PATTERN)
    IN  IF parsed.exc # "none"
        THEN Result(bp, parsed.exc, "", <<>>, sent.log)
        ELSE Result(bp, "none", "", Strip(parsed.ret), sent.log)

\* enable_scp(cmd="")
enable_scp(bp, cmd) == Result(bp, "NotImplementedError", "", <<>>, <<>>)

\* disable_scp(cmd="")
disable_scp(bp, cmd) == Result(bp, "NotImplementedError", "", <<>>, <<>>)

----------------------------------------------------------------------------
(* Inputs *)

Usernames == {"root", "admin"}
Secrets == {<<"p", "w">>}
SU == <<"s", "u">>
LOGOUT == <<"l", "o", "g", "o", "u", "t">>
A_TXT == <<"a", ".", "t", "x", "t">>
B_TXT == <<"b", ".", "t", "x", "t">>
C_TXT == <<"c", ".", "t", "x", "t">>

\* (cmd, pattern, re_flags) given to enable / config_mode
EnableArgs ==
    { [cmd |-> SUDO_S, pattern |-> SSWORD, ic |-> TRUE],
      [cmd |-> SU, pattern |-> SSWORD, ic |-> FALSE],
      [cmd |-> SUDO_S, pattern |-> <<"P", "I", "N">>, ic |-> TRUE] }

\* what read_channel() can deliver after the elevation command
Outputs ==
    { <<>>,
      <<"P", "a", "s", "s", "w", "o", "r", "d", ":">>,
      <<"P", "A", "S", "S", "W", "O", "R", "D", ":">> }

\* lines the channel can deliver to a prompt refresh
RawLines == { <<"u", "$">>, <<" ", "u", "#", " ">>, <<"u">> }

LineSeqs == UNION {[1..n -> RawLines] : n \in 0..MaxReads}

\* (pri_prompt_terminator, alt_prompt_terminator, pattern) given to set_base_prompt
PromptArgs ==
    { [pri |-> LINUX_PROMPT_PRI, alt |-> LINUX_PROMPT_ALT, pattern |-> None],
      [pri |-> LINUX_PROMPT_ALT, alt |-> LINUX_PROMPT_ALT, pattern |-> None],
      [pri |-> LINUX_PROMPT_PRI, alt |-> LINUX_PROMPT_ALT, pattern |-> <<"u">>] }

ExitCommands == {EXIT, LOGOUT}
CheckStrings == {LINUX_PROMPT_ROOT, LINUX_PROMPT_PRI}
ConfigCommands == {<<>>, <<<<"l", "s">>>>}
ConfigOutputs == {<<>>}

\* positional arguments of the methods that take *args
AnyArgs == {<<>>, <<<<"w", "r">>>>}

\* cmd arguments of enable_scp() and disable_scp()
ScpCmds == {<<>>, <<"s", "c", "p">>}

\* search_pattern and remote_cmd arguments of the file checks
RemoteCmds == {<<>>, <<"l", "s">>}

\* what the Unix helpers find: bytes free, bytes of the file
SpaceAnswers == {0, 4096}
SizeAnswers == {0, 1024}

BaseCmds == {MD5SUM, <<"c", "k", "s", "u", "m">>}

\* raw outputs of the checksum command
Md5Outputs ==
    { <<"d", "4", "1", "d", " ", " ", "f">>,
      <<"a", " ", "f", " ">>,
      <<"d", "4", " ">>,
      <<" ", "d", "4", " ", "f">>,
      <<"d", "4">> }

----------------------------------------------------------------------------
(* State machine *)

Init ==
    /\ base_prompt = <<>>
    /\ username \in Usernames
    /\ secret \in Secrets
    /\ ft \in [direction : {"put", "get"}, source_file : {A_TXT},
               dest_file : {B_TXT}, file_system : {VAR_TMP}]
    /\ call = [op |-> "init", args |-> <<>>, pre |-> <<>>, exc |-> "none", msg |-> "",
               ret |-> <<>>, retb |-> FALSE, retn |-> 0, log |-> <<>>]
    /\ prev = [op |-> "init", exc |-> "none", wrote |-> FALSE]

\* a call of op with arguments args completed with result r
Done(op, args, r) ==
    /\ base_prompt' = r.base_prompt
    /\ call' = [op |-> op, args |-> args, pre |-> base_prompt, exc |-> r.exc,
                msg |-> r.msg, ret |-> r.ret, retb |-> FALSE, retn |-> 0, log |-> r.log]
    /\ UNCHANGED <<username, secret, ft>>

\* a call of an integer method completed with value n after the channel events io
DoneInt(op, args, n, io) ==
    /\ call' = [op |-> op, args |-> args, pre |-> base_prompt, exc |-> "none",
                msg |-> "", ret |-> <<>>, retb |-> FALSE, retn |-> n,
                log |-> io]
    /\ UNCHANGED <<base_prompt, username, secret, ft>>

\* a call of a boolean method completed with value b after the channel events io
DoneBool(op, args, b, io) ==
    /\ call' = [op |-> op, args |-> args, pre |-> base_prompt, exc |-> "none",
                msg |-> "", ret |-> <<>>, retb |-> b, retn |-> 0,
                log |-> io]
    /\ UNCHANGED <<base_prompt, username, secret, ft>>

DisablePagingCall ==
    \E a \in AnyArgs : Done("disable_paging", a, disable_paging(base_prompt, a))

SetBasePromptCall ==
    \E a \in PromptArgs, lines \in LineSeqs :
        Done("set_base_prompt", a,
             set_base_prompt(base_prompt, a.pri, a.alt, a.pattern, lines))

SendConfigSetCall ==
    \E cmds \in ConfigCommands, flag \in BOOLEAN, lines \in LineSeqs :
        \E outs \in [1..Len(cmds) -> ConfigOutputs] :
            Done("send_config_set", [config_commands |-> cmds, exit_config_mode |-> flag],
                 send_config_set(base_prompt, username, cmds, flag, outs, lines))

CheckConfigModeCall ==
    \E cs \in CheckStrings :
        DoneBool("check_config_mode", [check_string |-> cs],
                 check_config_mode(base_prompt, cs, <<>>),
                 check_config_mode_io(cs, <<>>))

ConfigModeCall ==
    \E a \in EnableArgs, out \in Outputs \cup {TIMEOUT}, lines \in LineSeqs :
        Done("config_mode", a,
             config_mode(base_prompt, secret, a.cmd, a.pattern, a.ic, out, lines))

ExitConfigModeCall ==
    \E c \in ExitCommands, lines \in LineSeqs :
        Done("exit_config_mode", [exit_command |-> c],
             exit_config_mode(base_prompt, c, <<>>, lines))

CheckEnableModeCall ==
    \E cs \in CheckStrings :
        DoneBool("check_enable_mode", [check_string |-> cs],
                 check_enable_mode(base_prompt, cs),
                 check_enable_mode_io(cs))

ExitEnableModeCall ==
    \E c \in ExitCommands, lines \in LineSeqs :
        Done("exit_enable_mode", [exit_command |-> c],
             exit_enable_mode(base_prompt, c, lines))

EnableCall ==
    \E a \in EnableArgs, out \in Outputs \cup {TIMEOUT}, lines \in LineSeqs :
        Done("enable", a,
             enable(base_prompt, secret, a.cmd, a.pattern, a.ic, out, lines))

SaveConfigCall ==
    \E a \in AnyArgs : Done("save_config", a, save_config(base_prompt, a))

RemoteMd5Call ==
    \E b \in BaseCmds, rf \in {None, C_TXT}, out \in Md5Outputs :
        Done("remote_md5", [base_cmd |-> b, remote_file |-> rf],
             remote_md5(base_prompt, ft, b, rf, out))

RemoteSpaceAvailableCall ==
    \E sp \in RemoteCmds, n \in SpaceAnswers :
        LET r == remote_space_available(sp, n)
        IN  DoneInt("remote_space_available", [search_pattern |-> sp], r.ret, r.log)

CheckFileExistsCall ==
    \E c \in RemoteCmds, b \in BOOLEAN :
        LET r == check_file_exists(c, b)
        IN  DoneBool("check_file_exists", [remote_cmd |-> c], r.ret, r.log)

RemoteFileSizeCall ==
    \E c \in RemoteCmds, rf \in {None, C_TXT}, n \in SizeAnswers :
        LET r == remote_file_size(c, rf, n)
        IN  DoneInt("remote_file_size", [remote_cmd |-> c, remote_file |-> rf],
                    r.ret, r.log)

\* the static method takes no session and no descriptor
ProcessMd5Call ==
    \E out \in Md5Outputs :
        LET r == process_md5(out, MD5_PATTERN)
        IN  /\ call' = [op |-> "process_md5", args |-> [md5_output |-> out],
                        pre |-> base_prompt, exc |-> r.exc, msg |-> "",
                        ret |-> r.ret, retb |-> FALSE, retn |-> 0, log |-> <<>>]
            /\ UNCHANGED <<base_prompt, username, secret, ft>>

EnableScpCall ==
    \E c \in ScpCmds : Done("enable_scp", [cmd |-> c], enable_scp(base_prompt, c))

DisableScpCall ==
    \E c \in ScpCmds : Done("disable_scp", [cmd |-> c], disable_scp(base_prompt, c))

\* the history variable records the call that is being replaced
Track == prev' = [op |-> call.op, exc |-> call.exc, wrote |-> Writes(call.log) # {}]

DisablePaging == DisablePagingCall /\ UNCHANGED prev

SetBasePrompt == SetBasePromptCall /\ UNCHANGED prev

SendConfigSet == SendConfigSetCall /\ UNCHANGED prev

CheckConfigMode == CheckConfigModeCall /\ UNCHANGED prev

ConfigMode == ConfigModeCall /\ UNCHANGED prev

ExitConfigMode == ExitConfigModeCall /\ UNCHANGED prev

CheckEnableMode == CheckEnableModeCall /\ UNCHANGED prev

ExitEnableMode == ExitEnableModeCall /\ UNCHANGED prev

Enable == EnableCall /\ UNCHANGED prev

SaveConfig == SaveConfigCall /\ UNCHANGED prev

RemoteSpaceAvailable == RemoteSpaceAvailableCall /\ UNCHANGED prev

CheckFileExists == CheckFileExistsCall /\ UNCHANGED prev

RemoteFileSize == RemoteFileSizeCall /\ UNCHANGED prev

RemoteMd5 == RemoteMd5Call /\ UNCHANGED prev

EnableScp == EnableScpCall /\ UNCHANGED prev

DisableScp == DisableScpCall /\ UNCHANGED prev
ProcessMd5 == ProcessMd5Call /\ UNCHANGED prev

\* the elevation operations, with the history kept
SetBasePromptSeq == SetBasePromptCall /\ Track

ExitEnableModeSeq == ExitEnableModeCall /\ Track

EnableSeq == EnableCall /\ Track

Next ==
    \/ DisablePaging
    \/ SetBasePrompt
    \/ SendConfigSet
    \/ CheckConfigMode
    \/ ConfigMode
    \/ ExitConfigMode
    \/ CheckEnableMode
    \/ ExitEnableMode
    \/ Enable
    \/ SaveConfig
    \/ RemoteSpaceAvailable
    \/ CheckFileExists
    \/ RemoteFileSize
    \/ RemoteMd5
    \/ ProcessMd5
    \/ EnableScp
    \/ DisableScp

Spec == Init /\ [][Next]_vars

NextSeq ==
    \/ SetBasePromptSeq
    \/ ExitEnableModeSeq
    \/ EnableSeq

SpecSeq == Init /\ [][NextSeq]_vars

----------------------------------------------------------------------------
(* Properties *)

\* the session states: Privileged is a base prompt ending in the elevated terminator
Privileged(bp) == bp # <<>> /\ <<bp[Len(bp)]>> = LINUX_PROMPT_ROOT
Unprivileged(bp) == ~Privileged(bp)

\* the call's prompt refresh completed: its last channel event is the read of
\* the line that showed the prompt
RefreshCompleted == 
    /\ call.log # <<>>
    /\ call.log[Len(call.log)].ev = "read"
    /\ call.log[Len(call.log)].by = "set_base_prompt"

\* the prompt that refresh read, trimmed
RefreshedPrompt == Strip(call.log[Len(call.log)].arg)

\* a read of the call timed out
ReadTimedOut == \E i \in 1..Len(call.log) : call.log[i].ev = "timeout"

\* the output read after the elevation command shows the credential prompt
CredentialPrompted ==
    \E i \in 1..Len(call.log) :
        /\ call.log[i].ev = "read"
        /\ call.log[i].by = "enable"
        /\ re_search(call.args.pattern, call.log[i].arg, call.args.ic)

SecretWritten == WritesOf(call.log, "enable", "secret") # {}

\* C1: an enable() on an Unprivileged session whose command is answered with
\* output matching the credential pattern and whose refreshed prompt ends in
\* the elevated terminator returns normally, and check_enable_mode() and
\* check_config_mode() are then both true.
C1_ElevateSucceeds ==
    ( /\ call.op = "enable"
      /\ Unprivileged(call.pre)
      /\ CredentialPrompted
      /\ RefreshCompleted
      /\ Privileged(RefreshedPrompt) )
    => /\ call.exc = "none"
       /\ check_enable_mode(base_prompt, LINUX_PROMPT_ROOT)
       /\ check_config_mode(base_prompt, LINUX_PROMPT_ROOT, <<>>)

C1_Witness ==
    /\ call.op = "enable"
    /\ Unprivileged(call.pre)
    /\ CredentialPrompted
    /\ SecretWritten
    /\ RefreshCompleted
    /\ Privileged(RefreshedPrompt)
    /\ call.exc = "none"

\* C2: an enable() on a Privileged session writes nothing to the channel,
\* returns the empty string and leaves the base prompt as it was; so does
\* every repetition of the call.
C2_ElevateIdempotent ==
    (call.op = "enable" /\ Privileged(call.pre))
    => /\ Writes(call.log) = {}
       /\ call.exc = "none"
       /\ call.ret = <<>>
       /\ base_prompt = call.pre
       /\ Privileged(base_prompt)

\* two enable() calls in succession, both on a Privileged session
C2_Witness ==
    /\ call.op = "enable"
    /\ Privileged(call.pre)
    /\ call.exc = "none"
    /\ call.log = <<>>
    /\ prev.op = "enable"
    /\ prev.exc = "none"
    /\ ~prev.wrote

\* C3: an enable() whose prompt refresh completed with a prompt that does not
\* end in the elevated terminator raises ValueError("Failed to enter enable
\* mode...") (the spec's PermissionError), and it wrote the elevation command
\* exactly once.
C3_ElevateFailsOnce ==
    ( /\ call.op = "enable"
      /\ Unprivileged(call.pre)
      /\ RefreshCompleted
      /\ Unprivileged(RefreshedPrompt) )
    => /\ call.exc = "ValueError"
       /\ call.msg = ENABLE_FAILED_MSG
       /\ Cardinality(WritesOf(call.log, "enable", "cmd")) = 1

C3_Witness ==
    /\ call.op = "enable"
    /\ Unprivileged(call.pre)
    /\ SecretWritten
    /\ RefreshCompleted
    /\ Unprivileged(RefreshedPrompt)
    /\ call.exc = "ValueError"

\* C4: an exit_enable_mode() on a Privileged session that is still Privileged
\* after the exit command and the completed prompt refresh raises
\* ValueError("Failed to exit enable mode.") (the spec's FatalStateError), and
\* it wrote the exit command exactly once.
C4_DeElevateFailsOnce ==
    ( /\ call.op = "exit_enable_mode"
      /\ Privileged(call.pre)
      /\ RefreshCompleted
      /\ Privileged(RefreshedPrompt) )
    => /\ call.exc = "ValueError"
       /\ call.msg = EXIT_FAILED_MSG
       /\ Cardinality(WritesOf(call.log, "exit_enable_mode", "exit_command")) = 1

C4_Witness ==
    /\ call.op = "exit_enable_mode"
    /\ Privileged(call.pre)
    /\ RefreshCompleted
    /\ Privileged(RefreshedPrompt)
    /\ call.exc = "ValueError"
    /\ call.msg = EXIT_FAILED_MSG

\* C5: an enable() on an Unprivileged session one of whose channel reads timed
\* out (the read of the command's output, or a read of the prompt refresh)
\* raises NetmikoTimeoutException (the spec's SessionTimeoutError), never
\* socket.timeout.
C5_ElevateTimeoutTranslated ==
    (call.op = "enable" /\ Unprivileged(call.pre) /\ ReadTimedOut)
    => call.exc = "NetmikoTimeoutException"

\* the timeout happened in the prompt refresh, after the secret was written
C5_Witness ==
    /\ call.op = "enable"
    /\ Unprivileged(call.pre)
    /\ SecretWritten
    /\ call.log[Len(call.log)].ev = "timeout"
    /\ call.log[Len(call.log)].by = "set_base_prompt"
    /\ call.exc = "NetmikoTimeoutException"

\* C6: an exit_enable_mode() on a Privileged session whose prompt refresh timed
\* out raises NetmikoTimeoutException (the spec's SessionTimeoutError), never
\* socket.timeout.
C6_DeElevateTimeoutTranslated ==
    (call.op = "exit_enable_mode" /\ Privileged(call.pre) /\ ReadTimedOut)
    => call.exc = "NetmikoTimeoutException"

\* C7: when username is "root", send_config_set() hands exit_config_mode=False
\* to the generic batch execution whatever the caller asked for, and the batch
\* neither calls exit_config_mode() nor writes the exit command.
C7_RootNeverExits ==
    (call.op = "send_config_set" /\ username = "root")
    => /\ call.log # <<>>
       /\ call.log[1] = Call("send_config_set", "super.send_config_set", <<"False">>)
       /\ \A i \in 1..Len(call.log) :
              /\ ~(call.log[i].ev = "call" /\ call.log[i].what = "exit_config_mode")
              /\ ~(call.log[i].ev = "write" /\ call.log[i].what = "exit_command")

\* root asked for the exit, in enable mode, where the exit would have been written
C7_Witness ==
    /\ call.op = "send_config_set"
    /\ username = "root"
    /\ call.args.exit_config_mode
    /\ call.args.config_commands # <<>>
    /\ Privileged(call.pre)
    /\ call.exc = "none"

\* C8: an exit_enable_mode() on an Unprivileged session writes nothing to the
\* channel, returns the empty string and leaves the session Unprivileged.
C8_DeElevateIdempotent ==
    (call.op = "exit_enable_mode" /\ Unprivileged(call.pre))
    => /\ Writes(call.log) = {}
       /\ call.exc = "none"
       /\ call.ret = <<>>
       /\ base_prompt = call.pre
       /\ Unprivileged(base_prompt)

\* on a session whose prompt has been discovered
C8_Witness ==
    /\ call.op = "exit_enable_mode"
    /\ call.pre # <<>>
    /\ Unprivileged(call.pre)
    /\ call.log = <<>>
    /\ call.exc = "none"

\* C9: right after every completed prompt refresh (set_base_prompt() itself, or
\* the one inside enable(), exit_enable_mode() and their callers) the stored
\* base prompt is the trimmed prompt the channel showed, and check_enable_mode()
\* is true exactly when it ends in the elevated terminator.
C9_FlagConsistentAfterRefresh ==
    RefreshCompleted
    => /\ base_prompt = RefreshedPrompt
       /\ check_enable_mode(base_prompt, LINUX_PROMPT_ROOT) <=> Privileged(base_prompt)

\* the refresh inside enable() found an elevated prompt
C9_Witness ==
    /\ call.op = "enable"
    /\ RefreshCompleted
    /\ call.log[Len(call.log)].arg # base_prompt
    /\ Privileged(base_prompt)
    /\ check_enable_mode(base_prompt, LINUX_PROMPT_ROOT)

\* the remote file the claim expects remote_md5() to work on
ExpectedRemoteFile ==
    IF call.args.remote_file # None THEN call.args.remote_file
    ELSE IF ft.direction = "put" THEN ft.dest_file ELSE ft.source_file

\* C10: remote_md5() without remote_file sends the checksum command for
\* dest_file when direction is "put" and for source_file when it is "get";
\* with remote_file given, for that file whatever the direction.
C10_RemoteFileResolved ==
    call.op = "remote_md5"
    => /\ Len(call.log) = 1
       /\ call.log[1].ev = "send_command"
       /\ EndsWith(call.log[1].arg, <<"/">> \o ExpectedRemoteFile)

\* direction "get", no override: the command names source_file
C10_Witness ==
    /\ call.op = "remote_md5"
    /\ ft.direction = "get"
    /\ call.args.remote_file = None
    /\ ft.source_file # ft.dest_file
    /\ EndsWith(call.log[1].arg, <<"/">> \o ft.source_file)

\* the commands sent over the control channel during the call
SentCommands == {i \in 1..Len(call.log) : call.log[i].ev = "send_command"}

\* C11: every remote_md5() sends exactly one command over the control channel,
\* "<base_cmd> <file_system>/<remote file>" for the resolved remote file, with
\* read_timeout=300, and returns the process_md5() result of the command's
\* output, stripped (it raises when process_md5() raises).
C11_ChecksumCommand ==
    call.op = "remote_md5"
    => /\ Cardinality(SentCommands) = 1
       /\ Writes(call.log) = {}
       /\ LET e      == call.log[CHOOSE i \in SentCommands : TRUE]
              parsed == process_md5(e.out, MD5_PATTERN)
          IN  /\ e.arg = call.args.base_cmd \o <<" ">> \o ft.file_system
                            \o <<"/">> \o ExpectedRemoteFile
              /\ e.read_timeout = 300
              /\ call.exc = parsed.exc
              /\ call.exc = "none" => call.ret = Strip(parsed.ret)

\* "md5sum /var/tmp/a.txt", returning the hash
C11_Witness ==
    /\ call.op = "remote_md5"
    /\ call.exc = "none"
    /\ call.log[1].arg = <<"m", "d", "5", "s", "u", "m", " ", "/", "v", "a", "r", "/",
                           "t", "m", "p", "/", "a", ".", "t", "x", "t">>
    /\ call.log[1].read_timeout = 300
    /\ call.ret = <<"d", "4", "1", "d">>

UnsupportedOps == {"save_config", "enable_scp", "disable_scp"}

\* C12: save_config(), enable_scp() and disable_scp() raise
\* NotImplementedError whatever their arguments and whatever the state of the
\* session, and write nothing to the channel (the session is left as it was).
C12_Unsupported ==
    call.op \in UnsupportedOps
    => /\ call.exc = "NotImplementedError"
       /\ call.log = <<>>
       /\ base_prompt = call.pre

\* save_config("wr") refused on a Privileged session
C12_Witness ==
    /\ call.op = "save_config"
    /\ call.args # <<>>
    /\ Privileged(call.pre)
    /\ call.exc = "NotImplementedError"

\* out is <hash><whitespace><filename> with a hash of k characters
ConventionalForm(out, k) ==
    /\ k \in 1..(Len(out) - 2)
    /\ \A i \in 1..k : out[i] \notin Whitespace
    /\ out[k + 1] \in Whitespace
    /\ \E j \in (k + 2)..Len(out) : out[j] \notin Whitespace

\* C13: on a raw output of the form <hash><whitespace><filename>,
\* process_md5() returns exactly the leading token <hash>, with no whitespace
\* around it, and the call changes neither the session (base prompt, user,
\* secret, nothing on the channel) nor the file-transfer descriptor.
C13_LeadingToken ==
    [][call'.op = "process_md5" /\ call' # call
       => /\ \A k \in 1..Len(call'.args.md5_output) :
                ConventionalForm(call'.args.md5_output, k)
                => /\ call'.exc = "none"
                   /\ call'.ret = SubSeq(call'.args.md5_output, 1, k)
                   /\ Strip(call'.ret) = call'.ret
          /\ call'.log = <<>>
          /\ UNCHANGED <<base_prompt, username, secret, ft>>]_vars

\* process_md5("d41d  f") gave "d41d"
C13_Witness ==
    /\ call.op = "process_md5"
    /\ call.args.md5_output = <<"d", "4", "1", "d", " ", " ", "f">>
    /\ call.exc = "none"
    /\ call.ret = <<"d", "4", "1", "d">>

\* C14: check_enable_mode() is a read of the cached base prompt: in every
\* state of the session it writes nothing to the channel and reads nothing
\* from it, leaves the base prompt as it was, and answers from that prompt.
C14_PureRead ==
    call.op = "check_enable_mode"
    => /\ call.log = <<>>
       /\ base_prompt = call.pre
       /\ call.exc = "none"
       /\ call.retb = EndsWith(call.pre, call.args.check_string)

\* the check answered TRUE on a Privileged session
C14_Witness ==
    /\ call.op = "check_enable_mode"
    /\ Privileged(call.pre)
    /\ call.args.check_string = LINUX_PROMPT_ROOT
    /\ call.retb
    /\ call.log = <<>>

\* what the channel can do during an elevation
EnableChannels == (Outputs \cup {TIMEOUT}) \X LineSeqs

\* C15: from every state of the session and whatever the channel does,
\* config_mode(command, pattern, re_flags) is enable(command, pattern, re_flags),
\* exit_config_mode(command) is exit_enable_mode(command) and
\* check_config_mode(check_string) is check_enable_mode(check_string): the same
\* writes and reads in the same order, the same result or exception, the same
\* base prompt afterwards; and a config_mode() call that has completed is one
\* that enable() produces from the same state.
C15_CommandModeAliases ==
    /\ \A a \in EnableArgs, ch \in EnableChannels :
          config_mode(base_prompt, secret, a.cmd, a.pattern, a.ic, ch[1], ch[2])
            = enable(base_prompt, secret, a.cmd, a.pattern, a.ic, ch[1], ch[2])
    /\ \A c \in ExitCommands, pat \in {<<>>, SSWORD}, lines \in LineSeqs :
          exit_config_mode(base_prompt, c, pat, lines)
            = exit_enable_mode(base_prompt, c, lines)
    /\ \A cs \in CheckStrings, pat \in {<<>>, SSWORD} :
          /\ check_config_mode(base_prompt, cs, pat) = check_enable_mode(base_prompt, cs)
          /\ check_config_mode_io(cs, pat) = check_enable_mode_io(cs)
    /\ call.op = "config_mode"
       => \E ch \in EnableChannels :
            LET r == enable(call.pre, secret, call.args.cmd, call.args.pattern,
                            call.args.ic, ch[1], ch[2])
            IN  /\ r.base_prompt = base_prompt
                /\ r.exc = call.exc
                /\ r.msg = call.msg
                /\ r.ret = call.ret
                /\ r.log = call.log

\* config_mode() elevated an Unprivileged session, the secret written
C15_Witness ==
    /\ call.op = "config_mode"
    /\ Unprivileged(call.pre)
    /\ call.exc = "none"
    /\ SecretWritten
    /\ Privileged(base_prompt)

\* a read that completed, with data or by timing out
IsRead(e) == e.ev \in {"read", "timeout"}

\* C16 (as claimed): in enable() and exit_enable_mode() a read completes, with
\* data or by timeout, between any two writes to the channel.
C16_HalfDuplex ==
    call.op \in {"enable", "exit_enable_mode"}
    => \A i, j \in Writes(call.log) :
         i < j => \E k \in (i + 1)..(j - 1) : IsRead(call.log[k])

\* C16 (amended): in enable() and exit_enable_mode() every write is followed,
\* before the call ends, by a read that completes with data or by timeout; a
\* write follows another write directly only where the prompt refresh sends
\* its newline straight after the secret or after the exit command, so that
\* the elevation command is always read for before anything else is written
\* and no three writes are issued in a row.
C16_WritesAnswered ==
    call.op \in {"enable", "exit_enable_mode"}
    => \A i \in Writes(call.log) :
         /\ \E k \in (i + 1)..Len(call.log) : IsRead(call.log[k])
         /\ (i < Len(call.log) /\ call.log[i + 1].ev = "write")
            => /\ call.log[i + 1].by = "set_base_prompt"
               /\ call.log[i].what \in {"secret", "exit_command"}

\* enable() wrote the secret and the refresh's newline with no read between
C16_Witness ==
    /\ call.op = "enable"
    /\ \E i \in WritesOf(call.log, "enable", "secret") :
          /\ call.log[i + 1].ev = "write"
          /\ call.log[i + 1].by = "set_base_prompt"
          /\ IsRead(call.log[i - 1])

\* C17: an enable() call writes the stored secret at most once; it writes it
\* exactly when the session was Unprivileged at the start of the call and the
\* output read after the elevation command matches the pattern; and the
\* secret is written only after the elevation command and that read.
C17_SecretOnPrompt ==
    call.op = "enable"
    => LET sw == WritesOf(call.log, "enable", "secret")
       IN  /\ Cardinality(sw) <= 1
           /\ sw # {} <=> (Unprivileged(call.pre) /\ CredentialPrompted)
           /\ \A i \in sw :
                /\ call.log[i].arg = secret
                /\ i = 3
                /\ call.log[1] = Write("enable", "cmd", call.args.cmd)
                /\ call.log[2].ev = "read"
                /\ call.log[2].by = "enable"
                /\ re_search(call.args.pattern, call.log[2].arg, call.args.ic)

\* the secret went out after "PASSWORD:" was read under a case-insensitive pattern
C17_Witness ==
    /\ call.op = "enable"
    /\ Unprivileged(call.pre)
    /\ call.args.ic
    /\ call.log[2].arg = <<"P", "A", "S", "S", "W", "O", "R", "D", ":">>
    /\ call.log[3] = Write("enable", "secret", secret)

\* the previous call was an exit_enable_mode() that left enable mode
LeftEnableMode ==
    /\ prev.op = "exit_enable_mode"
    /\ prev.exc = "none"
    /\ prev.wrote

\* C18: an exit_enable_mode() on a Privileged session whose refreshed prompt
\* no longer ends in the elevated terminator writes the exit command exactly
\* once, returns normally and leaves check_enable_mode() false; from the state
\* it leaves, an enable() can make the session Privileged again, and an
\* enable() that follows it and reads an elevated prompt does so.
C18_ReEnterable ==
    /\ (/\ call.op = "exit_enable_mode"
        /\ Privileged(call.pre)
        /\ RefreshCompleted
        /\ ~Privileged(RefreshedPrompt))
       => /\ call.exc = "none"
          /\ call.ret = <<>>
          /\ WritesOf(call.log, "exit_enable_mode", "exit_command") = {1}
          /\ call.log[1].arg = call.args.exit_command
          /\ ~check_enable_mode(base_prompt, LINUX_PROMPT_ROOT)
          /\ \E a \in EnableArgs, ch \in EnableChannels :
                LET r == enable(base_prompt, secret, a.cmd, a.pattern, a.ic, ch[1], ch[2])
                IN  r.exc = "none" /\ Privileged(r.base_prompt)
    /\ (/\ call.op = "enable"
        /\ LeftEnableMode
        /\ RefreshCompleted
        /\ Privileged(RefreshedPrompt))
       => /\ call.exc = "none"
          /\ Privileged(base_prompt)
          /\ check_enable_mode(base_prompt, LINUX_PROMPT_ROOT)

\* Privileged again, by the enable() that followed the exit_enable_mode()
C18_Witness ==
    /\ call.op = "enable"
    /\ LeftEnableMode
    /\ Unprivileged(call.pre)
    /\ call.exc = "none"
    /\ Privileged(base_prompt)

\* the operations said to leave the base prompt alone
FrameOps ==
    {"disable_paging", "check_enable_mode", "check_config_mode", "save_config",
     "remote_space_available", "check_file_exists", "remote_file_size",
     "remote_md5", "process_md5", "enable_scp", "disable_scp"}

\* the call ran a set_base_prompt(), enable() or exit_enable_mode()
RanPromptMethod ==
    \/ call.op = "set_base_prompt"
    \/ \E i \in 1..Len(call.log) : call.log[i].by \in {"enable", "exit_enable_mode"}

\* C19: the stored base prompt changes only during set_base_prompt(), enable()
\* and exit_enable_mode(), and then to the prompt the refresh read;
\* disable_paging(), check_enable_mode(), check_config_mode(), save_config()
\* and every LinuxFileTransfer method leave it as it was; and disable_paging()
\* writes nothing to the channel and returns the empty string.
C19_PromptFrame ==
    /\ call.op \in FrameOps => base_prompt = call.pre
    /\ base_prompt # call.pre
       => /\ RanPromptMethod
          /\ RefreshCompleted
          /\ base_prompt = RefreshedPrompt
    /\ call.op = "disable_paging"
       => /\ call.log = <<>>
          /\ call.exc = "none"
          /\ call.ret = <<>>

\* disable_paging("wr") on a Privileged session
C19_Witness ==
    /\ call.op = "disable_paging"
    /\ call.args # <<>>
    /\ Privileged(call.pre)
    /\ base_prompt = call.pre
    /\ call.log = <<>>
    /\ call.ret = <<>>

\* C20: when enable() ends with NetmikoTimeoutException the stored base prompt
\* is the one held before the call, although the elevation command has been
\* written to the channel (and the secret too, where the output asked for it).
C20_TimeoutKeepsPrompt ==
    (call.op = "enable" /\ call.exc = "NetmikoTimeoutException")
    => /\ base_prompt = call.pre
       /\ Unprivileged(base_prompt)
       /\ call.log[1] = Write("enable", "cmd", call.args.cmd)
       /\ ReadTimedOut
       /\ SecretWritten <=> CredentialPrompted

\* the refresh timed out after command and secret had gone out, on a session
\* whose prompt had been discovered
C20_Witness ==
    /\ call.op = "enable"
    /\ call.exc = "NetmikoTimeoutException"
    /\ call.pre # <<>>
    /\ SecretWritten
    /\ base_prompt = call.pre

====
